---- MODULE Spec2Model ----
(***************************************************************************)
(* Model of process_ruleset.py: the rule-file cleaning and merge pipeline  *)
(* (remove_marker_lines, normalize_domain_prefix,                          *)
(* process_domainset_and_non_ip, extract_domains, merge_and_deduplicate,   *)
(* main).  File contents are strings, handled character by character as    *)
(* the Python built-ins handle them.                                       *)
(***************************************************************************)
EXTENDS Integers, Sequences, FiniteSets, TLC

(***************************************************************************)
(* Python string built-ins used by the program.                            *)
(***************************************************************************)

\* s[i-1] of Python: the i-th character, as a one-character string.
Char(s, i) == SubSeq(s, i, i)

\* str.startswith
StartsWith(s, p) == Len(s) >= Len(p) /\ SubSeq(s, 1, Len(p)) = p

\* str.endswith (the "*.conf" patterns of rglob)
EndsWith(s, p) == Len(s) >= Len(p) /\ SubSeq(s, Len(s) - Len(p) + 1, Len(s)) = p

\* m in s
Contains(s, m) ==
    \E i \in 1..(Len(s) - Len(m) + 1) : SubSeq(s, i, i + Len(m) - 1) = m

\* str.isspace for one character (ASCII whitespace)
IsSpace(c) == c \in {" ", "\t", "\n", "\r", "\f"}

RECURSIVE LStrip(_)
LStrip(s) == IF s # "" /\ IsSpace(Char(s, 1)) THEN LStrip(Tail(s)) ELSE s

RECURSIVE RStrip(_)
RStrip(s) ==
    IF s # "" /\ IsSpace(Char(s, Len(s)))
    THEN RStrip(SubSeq(s, 1, Len(s) - 1))
    ELSE s

\* str.strip()
Strip(s) == RStrip(LStrip(s))

\* str.lstrip(".")
RECURSIVE LStripDots(_)
LStripDots(s) == IF s # "" /\ Char(s, 1) = "." THEN LStripDots(Tail(s)) ELSE s

UpperChars == "ABCDEFGHIJKLMNOPQRSTUVWXYZ"
LowerChars == "abcdefghijklmnopqrstuvwxyz"

\* c.lower() for each upper-case letter
LowerOf == [c \in {Char(UpperChars, i) : i \in 1..Len(UpperChars)} |->
               Char(LowerChars, CHOOSE i \in 1..Len(UpperChars) : Char(UpperChars, i) = c)]

LowerChar(c) == IF c \in DOMAIN LowerOf THEN LowerOf[c] ELSE c

\* str.lower() (ASCII)
RECURSIVE Lower(_)
Lower(s) == IF s = "" THEN "" ELSE LowerChar(Char(s, 1)) \o Lower(Tail(s))

\* The printable ASCII characters in code-point order: 32 (space) to 95 (_),
\* and 97 (a) to 126 (~).  Code point 96 cannot be written in a TLA+ string.
AsciiLow ==
    " !\"#$%&'()*+,-./0123456789:;<=>?@ABCDEFGHIJKLMNOPQRSTUVWXYZ[\\]^_"
AsciiHigh == "abcdefghijklmnopqrstuvwxyz{|}~"

\* ord(c) for each printable character
OrdOf ==
    [c \in {Char(AsciiLow, i) : i \in 1..Len(AsciiLow)}
           \cup {Char(AsciiHigh, i) : i \in 1..Len(AsciiHigh)} |->
        IF \E i \in 1..Len(AsciiLow) : Char(AsciiLow, i) = c
        THEN 31 + (CHOOSE i \in 1..Len(AsciiLow) : Char(AsciiLow, i) = c)
        ELSE 96 + (CHOOSE i \in 1..Len(AsciiHigh) : Char(AsciiHigh, i) = c)]

\* ord(c); the control characters (tab, line breaks) sort before every
\* printable one.
Ord(c) == IF c \in DOMAIN OrdOf THEN OrdOf[c] ELSE 9

\* a < b on str: code-point lexicographic order.  k is the first position
\* at which the two differ (one past the end of a when a is a prefix of b).
StrLess(a, b) ==
    \E k \in 1..Len(b) :
        /\ k <= Len(a) + 1
        /\ SubSeq(a, 1, k - 1) = SubSeq(b, 1, k - 1)
        /\ \/ k = Len(a) + 1
           \/ k <= Len(a) /\ Ord(Char(a, k)) < Ord(Char(b, k))

\* sorted(S) for a set of strings
RECURSIVE Sorted(_)
Sorted(S) ==
    IF S = {} THEN <<>>
    ELSE LET m == CHOOSE x \in S : \A y \in S : x = y \/ StrLess(x, y)
         IN  <<m>> \o Sorted(S \ {m})

\* Whether a line break of s ends at position i: \n (also as the end of
\* \r\n), \f, or a \r that no \n follows.
BreakEndsAt(s, i) ==
    \/ Char(s, i) \in {"\n", "\f"}
    \/ Char(s, i) = "\r" /\ ~(i < Len(s) /\ Char(s, i + 1) = "\n")

\* str.splitlines(): one line per line break, and one more for what follows
\* the last break when that is not empty.
SplitLines(text) ==
    LET ends == {i \in 1..Len(text) : BreakEndsAt(text, i)}
        n == Cardinality(ends)
        End(k) == IF k = 0 THEN 0
                  ELSE CHOOSE i \in ends : Cardinality({j \in ends : j <= i}) = k
        \* the line that the k-th break ends, without the break
        Line(k) ==
            LET e == End(k)
                start == End(k - 1) + 1
                stop == IF Char(text, e) = "\n" /\ e > start /\ Char(text, e - 1) = "\r"
                        THEN e - 2 ELSE e - 1
            IN  SubSeq(text, start, stop)
        broken == [k \in 1..n |-> Line(k)]
    IN  IF End(n) < Len(text)
        THEN Append(broken, SubSeq(text, End(n) + 1, Len(text)))
        ELSE broken

\* "\n".join(lines)
RECURSIVE Join(_)
Join(lines) ==
    IF lines = <<>> THEN ""
    ELSE IF Len(lines) = 1 THEN lines[1]
    ELSE lines[1] \o "\n" \o Join(Tail(lines))

(***************************************************************************)
(* The snapshot folder.  A path is the tuple of its parts below the        *)
(* folder; a file is absent, or has a text and may be unreadable           *)
(* (read_text raises).                                                     *)
(***************************************************************************)

Apple_CDN == <<"Apple_CDN.conf">>
CDN == <<"CDN.conf">>
ListTxt == <<"List", "reject.txt">>
DsApple == <<"domainset", "apple_cdn.conf">>
DsCdn == <<"domainset", "cdn.conf">>
NiApple == <<"non_ip", "apple_cdn.conf">>
NiCdn == <<"non_ip", "cdn.conf">>

\* The order in which rglob walks the folder.
PathOrder == <<Apple_CDN, CDN, ListTxt, DsApple, DsCdn, NiApple, NiCdn>>

AllPaths == {PathOrder[i] : i \in 1..Len(PathOrder)}

NoFile == [exists |-> FALSE, readable |-> FALSE, text |-> ""]

File(t) == [exists |-> TRUE, readable |-> TRUE, text |-> t]

EmptyFolder == [p \in AllPaths |-> NoFile]

\* No path: the None of domainset_file / non_ip_file.
None == <<>>

VARIABLES
    fs,      \* the files of the snapshot folder: path -> file
    orig,    \* the folder as it was before the first run
    root,    \* whether the snapshot folder exists
    script,  \* the calls one run makes, in order
    plan,    \* the calls the current run has still to make (head: current)
    pc,      \* the position in the current call
    todo,    \* the files the current loop has still to visit
    locals,  \* domainset_file and non_ip_file of the current merge
    log,     \* what has been printed
    runs,    \* how many runs have been started
    faults   \* whether write_text and unlink can fail in this folder

vars == <<fs, orig, root, script, plan, pc, todo, locals, log, runs, faults>>

\* The outcomes of a write_text or unlink: success (TRUE) or an exception.
Outcomes == IF faults THEN BOOLEAN ELSE {TRUE}

NoLocals == [domainset_file |-> None, non_ip_file |-> None]

Call(fn, source, target) == [fn |-> fn, source |-> source, target |-> target]

Printed(ev, path, n) == [ev |-> ev, path |-> path, n |-> n]

\* path.name
Name(p) == p[Len(p)]

\* {p.lower() for p in path.parts}
PartsLower(p) == {Lower(p[i]) : i \in 1..Len(p)}

\* folder.rglob("*" + suffix), as a list
RGlobSuffix(f, suffix) ==
    SelectSeq(PathOrder, LAMBDA p : f[p].exists /\ EndsWith(Name(p), suffix))

\* folder.rglob(name), as a list
RGlobName(f, name) ==
    SelectSeq(PathOrder, LAMBDA p : f[p].exists /\ Name(p) = name)

\* path.write_text(text) that succeeds: the file is created, or its content
\* replaced.
WriteText(f, p, text) ==
    [f EXCEPT ![p] = [exists |-> TRUE,
                      readable |-> IF f[p].exists THEN f[p].readable ELSE TRUE,
                      text |-> text]]

\* path.write_text(text) that raises: open() failed and nothing changed, or
\* the file was opened (truncated) and the write failed.
WriteTextFailed(f, p) == {f, WriteText(f, p, "")}

\* The current call returns: the run goes on to its next call.
Return ==
    /\ plan' = Tail(plan)
    /\ pc' = IF Len(plan) = 1 THEN "done" ELSE "entry"
    /\ todo' = <<>>
    /\ locals' = NoLocals

\* An exception leaves main: the run ends where it is.
Raise ==
    /\ pc' = "crashed"
    /\ UNCHANGED <<plan, todo, locals>>

InCall(fn, at) == pc = at /\ plan # <<>> /\ Head(plan).fn = fn

(***************************************************************************)
(* remove_marker_lines                                                     *)
(***************************************************************************)

\* Mutant: only the DOMAIN,-prefixed forms are listed.
markersPrefixedOnly ==
    << "DOMAIN,this_ruleset_is_made_by_sukkaw.ruleset.skk.moe",
       "DOMAIN,7h1s_rul35et_i5_mad3_by_5ukk4w-ruleset.skk.moe" >>

markers ==
    << "7h1s_rul35et_i5_mad3_by_5ukk4w-ruleset.skk.moe",
       "this_ruleset_is_made_by_sukkaw.ruleset.skk.moe",
       "DOMAIN,this_ruleset_is_made_by_sukkaw.ruleset.skk.moe",
       "DOMAIN,7h1s_rul35et_i5_mad3_by_5ukk4w-ruleset.skk.moe" >>

\* any(m in line for m in markers)
HasMarker(line) == \E i \in 1..Len(markers) : Contains(line, markers[i])

\* new_lines of remove_marker_lines
WithoutMarkerLines(lines) == SelectSeq(lines, LAMBDA l : ~HasMarker(l))

\* targets = list(rglob("*.conf")) + list(rglob("*.txt")) + list(rglob("*.json"))
RemoveMarkersEntry ==
    /\ InCall("remove_marker_lines", "entry")
    /\ todo' = RGlobSuffix(fs, ".conf") \o RGlobSuffix(fs, ".txt")
                   \o RGlobSuffix(fs, ".json")
    /\ pc' = "loop"
    /\ UNCHANGED <<fs, orig, root, script, plan, locals, log, runs, faults>>

\* One iteration of "for path in targets".
RemoveMarkersFile ==
    /\ InCall("remove_marker_lines", "loop")
    /\ todo # <<>>
    /\ LET path == Head(todo)
           lines == SplitLines(fs[path].text)
           new_lines == WithoutMarkerLines(lines)
       IN  IF ~fs[path].readable \/ new_lines = lines
           THEN /\ todo' = Tail(todo)
                /\ UNCHANGED <<fs, plan, pc, locals, log>>
           ELSE \E ok \in Outcomes :
                  IF ok
                  THEN /\ fs' = WriteText(fs, path, Join(new_lines) \o "\n")
                       /\ log' = Append(log, Printed("Cleaned markers from", path, 0))
                       /\ todo' = Tail(todo)
                       /\ UNCHANGED <<plan, pc, locals>>
                  ELSE /\ fs' \in WriteTextFailed(fs, path)
                       /\ Raise
                       /\ UNCHANGED log
    /\ UNCHANGED <<orig, root, script, runs, faults>>

RemoveMarkersReturn ==
    /\ InCall("remove_marker_lines", "loop")
    /\ todo = <<>>
    /\ Return
    /\ UNCHANGED <<fs, orig, root, script, log, runs, faults>>

(***************************************************************************)
(* normalize_domain_prefix, process_domainset_and_non_ip                   *)
(***************************************************************************)

\* Mutant: DOMAIN-SUFFIX, is missing from the list of prefixes left alone.
ValidPrefixesNoSuffix == <<"DOMAIN,", "DOMAIN-SET,", "DOMAIN-KEYWORD,", "#">>

ValidPrefixes == <<"DOMAIN,", "DOMAIN-SUFFIX,", "DOMAIN-SET,", "DOMAIN-KEYWORD,", "#">>

\* Mutant: the "if domain" test is missing.
normalize_domain_prefix_dangling(line) ==
    LET stripped == Strip(line)
        domain == LStripDots(stripped)
    IN  IF \E i \in 1..Len(ValidPrefixes) : StartsWith(stripped, ValidPrefixes[i])
        THEN line
        ELSE IF stripped = "" \/ StartsWith(stripped, "#")
        THEN line
        ELSE "DOMAIN-SUFFIX," \o domain

normalize_domain_prefix(line) ==
    LET stripped == Strip(line)
        domain == LStripDots(stripped)
    IN  IF \E i \in 1..Len(ValidPrefixes) : StartsWith(stripped, ValidPrefixes[i])
        THEN line
        ELSE IF stripped = "" \/ StartsWith(stripped, "#")
        THEN line
        ELSE IF domain # ""
        THEN "DOMAIN-SUFFIX," \o domain
        ELSE line

NormalizedLines(lines) == [i \in 1..Len(lines) |-> normalize_domain_prefix(lines[i])]

\* The files the loop of process_domainset_and_non_ip does not skip.
UnderDomainsetOrNonIp(p) ==
    "domainset" \in PartsLower(p) \/ "non_ip" \in PartsLower(p)

NormalizeEntry ==
    /\ InCall("process_domainset_and_non_ip", "entry")
    /\ todo' = RGlobSuffix(fs, ".conf")
    /\ pc' = "loop"
    /\ UNCHANGED <<fs, orig, root, script, plan, locals, log, runs, faults>>

\* One iteration of "for path in folder.rglob('*.conf')".
NormalizeFile ==
    /\ InCall("process_domainset_and_non_ip", "loop")
    /\ todo # <<>>
    /\ LET path == Head(todo)
           lines == SplitLines(fs[path].text)
           new_lines == NormalizedLines(lines)
           changed == \E i \in 1..Len(lines) : new_lines[i] # lines[i]
       IN  IF ~UnderDomainsetOrNonIp(path) \/ ~fs[path].readable \/ ~changed
           THEN /\ todo' = Tail(todo)
                /\ UNCHANGED <<fs, plan, pc, locals, log>>
           ELSE \E ok \in Outcomes :
                  IF ok
                  THEN /\ fs' = WriteText(fs, path, Join(new_lines) \o "\n")
                       /\ log' = Append(log, Printed("Normalized domains in", path, 0))
                       /\ todo' = Tail(todo)
                       /\ UNCHANGED <<plan, pc, locals>>
                  ELSE /\ fs' \in WriteTextFailed(fs, path)
                       /\ Raise
                       /\ UNCHANGED log
    /\ UNCHANGED <<orig, root, script, runs, faults>>

NormalizeReturn ==
    /\ InCall("process_domainset_and_non_ip", "loop")
    /\ todo = <<>>
    /\ Return
    /\ UNCHANGED <<fs, orig, root, script, log, runs, faults>>

(***************************************************************************)
(* extract_domains, merge_and_deduplicate                                  *)
(***************************************************************************)

KnownPrefixes == <<"DOMAIN-SUFFIX,", "DOMAIN,", "DOMAIN-SET,", "DOMAIN-KEYWORD,">>

\* What one line adds to the set of extract_domains: its bare domain, or ""
\* when the line adds nothing.
DomainOf(line) ==
    LET stripped == Strip(line)
        hits == {i \in 1..Len(KnownPrefixes) : StartsWith(stripped, KnownPrefixes[i])}
        first == CHOOSE i \in hits : \A j \in hits : i <= j
        bare == IF hits = {} THEN stripped
                ELSE Strip(SubSeq(stripped, Len(KnownPrefixes[first]) + 1, Len(stripped)))
    IN  IF stripped = "" \/ StartsWith(stripped, "#")
        THEN ""
        ELSE LStripDots(bare)

extract_domains(f, path) ==
    IF ~f[path].exists \/ ~f[path].readable
    THEN {}
    ELSE LET lines == SplitLines(f[path].text)
         IN  {DomainOf(lines[i]) : i \in 1..Len(lines)} \ {""}

LastOrNone(paths) == IF paths = <<>> THEN None ELSE paths[Len(paths)]

\* domainset_file after "for path in folder.rglob(source_name)"
DomainsetFile(f, source_name) ==
    LastOrNone(SelectSeq(RGlobName(f, source_name),
                         LAMBDA p : "domainset" \in PartsLower(p)))

\* Mutant: the folder name is tested as "nonip".
NonIpFileMisnamed(f, source_name) ==
    LastOrNone(SelectSeq(RGlobName(f, source_name),
                         LAMBDA p : "domainset" \notin PartsLower(p)
                                    /\ "nonip" \in PartsLower(p)))

\* non_ip_file after the same loop
NonIpFile(f, source_name) ==
    LastOrNone(SelectSeq(RGlobName(f, source_name),
                         LAMBDA p : "domainset" \notin PartsLower(p)
                                    /\ "non_ip" \in PartsLower(p)))

\* all_domains of merge_and_deduplicate
AllDomains(f, source_name) ==
    LET domainset_file == DomainsetFile(f, source_name)
        non_ip_file == NonIpFile(f, source_name)
    IN  (IF domainset_file # None THEN extract_domains(f, domainset_file) ELSE {})
        \cup (IF non_ip_file # None THEN extract_domains(f, non_ip_file) ELSE {})

\* unified_lines
UnifiedLines(domains) ==
    LET sorted == Sorted(domains)
    IN  [i \in 1..Len(sorted) |-> "DOMAIN-SUFFIX," \o sorted[i]]

\* Mutant: the "if not all_domains" test is missing.
NoDomainsUnchecked(all_domains) == FALSE

\* "if not all_domains": nothing to write
NoDomains(all_domains) == all_domains = {}

\* Mutant: the exception of write_text is caught and the function goes on.
UnifiedWriteSwallowed(unified_path, domainset_file, non_ip_file) ==
    /\ fs' \in WriteTextFailed(fs, unified_path)
    /\ locals' = [domainset_file |-> domainset_file, non_ip_file |-> non_ip_file]
    /\ pc' = "unlink_domainset"
    /\ UNCHANGED <<plan, todo, log>>

\* unified_path.write_text raises: nothing catches it in merge_and_deduplicate
\* or in main, so the run ends with the sources as they are.
UnifiedWriteRaises(unified_path, domainset_file, non_ip_file) ==
    /\ fs' \in WriteTextFailed(fs, unified_path)
    /\ Raise
    /\ UNCHANGED log

\* merge_and_deduplicate up to and including the write of the unified file.
Merge ==
    /\ InCall("merge_and_deduplicate", "entry")
    /\ LET source_name == Head(plan).source
           unified_path == <<Head(plan).target>>
           domainset_file == DomainsetFile(fs, source_name)
           non_ip_file == NonIpFile(fs, source_name)
           all_domains == AllDomains(fs, source_name)
           unified_lines == UnifiedLines(all_domains)
       IN  IF domainset_file = None /\ non_ip_file = None
           THEN /\ log' = Append(log, Printed("No source files found for", <<source_name>>, 0))
                /\ Return
                /\ UNCHANGED fs
           ELSE IF NoDomains(all_domains)
           THEN /\ log' = Append(log, Printed("No domains extracted for", <<source_name>>, 0))
                /\ Return
                /\ UNCHANGED fs
           ELSE \E ok \in Outcomes :
                  IF ok
                  THEN /\ fs' = WriteText(fs, unified_path, Join(unified_lines) \o "\n")
                       /\ log' = Append(log, Printed("Created unified", unified_path,
                                                     Len(unified_lines)))
                       /\ locals' = [domainset_file |-> domainset_file,
                                     non_ip_file |-> non_ip_file]
                       /\ pc' = "unlink_domainset"
                       /\ UNCHANGED <<plan, todo>>
                  ELSE UnifiedWriteRaises(unified_path, domainset_file, non_ip_file)
    /\ UNCHANGED <<orig, root, script, runs, faults>>

\* if domainset_file and domainset_file.exists(): try unlink
UnlinkDomainset ==
    /\ InCall("merge_and_deduplicate", "unlink_domainset")
    /\ LET path == locals.domainset_file
       IN  IF path # None /\ fs[path].exists
           THEN \E ok \in Outcomes :
                  IF ok
                  THEN /\ fs' = [fs EXCEPT ![path] = NoFile]
                       /\ log' = Append(log, Printed("Removed", path, 0))
                  ELSE /\ log' = Append(log, Printed("Failed to remove", path, 0))
                       /\ UNCHANGED fs
           ELSE UNCHANGED <<fs, log>>
    /\ pc' = "unlink_non_ip"
    /\ UNCHANGED <<orig, root, script, plan, todo, locals, runs, faults>>

\* if non_ip_file and non_ip_file.exists(): try unlink; then the call returns
UnlinkNonIp ==
    /\ InCall("merge_and_deduplicate", "unlink_non_ip")
    /\ LET path == locals.non_ip_file
       IN  IF path # None /\ fs[path].exists
           THEN \E ok \in Outcomes :
                  IF ok
                  THEN /\ fs' = [fs EXCEPT ![path] = NoFile]
                       /\ log' = Append(log, Printed("Removed", path, 0))
                  ELSE /\ log' = Append(log, Printed("Failed to remove", path, 0))
                       /\ UNCHANGED fs
           ELSE UNCHANGED <<fs, log>>
    /\ Return
    /\ UNCHANGED <<orig, root, script, runs, faults>>

(***************************************************************************)
(* main                                                                    *)
(***************************************************************************)

MainScript ==
    << Call("remove_marker_lines", "", ""),
       Call("process_domainset_and_non_ip", "", ""),
       Call("merge_and_deduplicate", "apple_cdn.conf", "Apple_CDN.conf"),
       Call("merge_and_deduplicate", "cdn.conf", "CDN.conf") >>

\* main up to its first call: the check that today's folder exists
Start ==
    /\ pc = "start"
    /\ IF ~root
       THEN /\ log' = Append(log, Printed("No folder found for today", None, 0))
            /\ pc' = "done"
            /\ plan' = <<>>
       ELSE /\ pc' = "entry"
            /\ plan' = script
            /\ UNCHANGED log
    /\ UNCHANGED <<fs, orig, root, script, todo, locals, runs, faults>>

(***************************************************************************)
(* Specifications.  Spec runs main once on a folder whose files can fail   *)
(* to be written or removed.  SpecClean applies the two cleaning stages,   *)
(* in main's order, to one rule file and then applies them again;          *)
(* SpecMerge applies merge_and_deduplicate to the sources of cdn.conf and  *)
(* then applies it again to what the first run left.                       *)
(***************************************************************************)

\* Bounds of the model.
MaxLines == 2
MaxSrcLines == 2
MaxRuns == 2

\* All sequences of at most n elements of S.
SeqsUpTo(S, n) == UNION {[1..k -> S] : k \in 0..n}

\* The same function is run again on the folder as the last run left it.
Rerun ==
    /\ pc \in {"done", "crashed"}
    /\ runs < MaxRuns
    /\ runs' = runs + 1
    /\ plan' = script
    /\ pc' = "entry"
    /\ todo' = <<>>
    /\ locals' = NoLocals
    /\ UNCHANGED <<fs, orig, root, script, log, faults>>

InitCommon ==
    /\ orig = fs
    /\ todo = <<>>
    /\ locals = NoLocals
    /\ log = <<>>
    /\ runs = 1

\* --- main ---

WatermarkLine == "DOMAIN,this_ruleset_is_made_by_sukkaw.ruleset.skk.moe"

Unreadable(t) == [exists |-> TRUE, readable |-> FALSE, text |-> t]

MainFolders ==
    {f \in [AllPaths -> {NoFile, File(".apple.com\n" \o WatermarkLine \o "\n"),
                         File("DOMAIN-SUFFIX,apple.com\n"),
                         File(".a.com\n"),
                         File("DOMAIN-SUFFIX,b.com\n"),
                         Unreadable("b.com\n"),
                         File(WatermarkLine \o "\n0.0.0.0 ads.example\n")}] :
        /\ f[Apple_CDN] = NoFile
        /\ f[CDN] = NoFile
        /\ f[DsApple] \in {NoFile, File(".apple.com\n" \o WatermarkLine \o "\n")}
        /\ f[NiApple] \in {NoFile, File("DOMAIN-SUFFIX,apple.com\n")}
        /\ f[DsCdn] \in {NoFile, File(".a.com\n")}
        /\ f[NiCdn] \in {NoFile, File("DOMAIN-SUFFIX,b.com\n"), Unreadable("b.com\n")}
        /\ f[ListTxt] \in {NoFile, File(WatermarkLine \o "\n0.0.0.0 ads.example\n")}}

Init ==
    /\ root \in BOOLEAN
    /\ fs \in (IF root THEN MainFolders ELSE {EmptyFolder})
    /\ faults = TRUE
    /\ script = MainScript
    /\ plan = <<>>
    /\ pc = "start"
    /\ InitCommon

Next ==
    \/ Start
    \/ RemoveMarkersEntry
    \/ RemoveMarkersFile
    \/ RemoveMarkersReturn
    \/ NormalizeEntry
    \/ NormalizeFile
    \/ NormalizeReturn
    \/ Merge
    \/ UnlinkDomainset
    \/ UnlinkNonIp

Spec == Init /\ [][Next]_vars

\* --- the cleaning stages on one rule file ---

CleanLines ==
    { "",
      "# note",
      WatermarkLine,
      "7h1s_rul35et_i5_mad3_by_5ukk4w-ruleset.skk.moe",
      "DOMAIN-SUFFIX,THIS_RULESET_IS_MADE_BY_SUKKAW.ruleset.skk.moe",
      "DOMAIN-SUFFIX,a.com",
      "  DOMAIN,a.com",
      "DOMAIN-KEYWORD,ad",
      "DOMAIN-SET,x",
      "DOMAIN-WILDCARD,*.a.com",
      "URL-REGEX,^ad",
      ".a.com",
      " ..b.com ",
      "..." }

\* Texts of at most MaxLines lines, with and without the final line break.
CleanTexts ==
    {Join(ls) \o nl : ls \in SeqsUpTo(CleanLines, MaxLines), nl \in {"", "\n"}}

CleanScript ==
    << Call("remove_marker_lines", "", ""),
       Call("process_domainset_and_non_ip", "", "") >>

InitClean ==
    /\ root = TRUE
    /\ \E p \in {DsCdn, ListTxt}, t \in CleanTexts :
          fs = [EmptyFolder EXCEPT ![p] = File(t)]
    /\ faults = FALSE
    /\ script = CleanScript
    /\ plan = script
    /\ pc = "entry"
    /\ InitCommon

NextClean ==
    \/ RemoveMarkersEntry
    \/ RemoveMarkersFile
    \/ RemoveMarkersReturn
    \/ NormalizeEntry
    \/ NormalizeFile
    \/ NormalizeReturn
    \/ Rerun

SpecClean == InitClean /\ [][NextClean]_vars

\* --- merge_and_deduplicate on the sources of cdn.conf ---

SrcLines ==
    << "DOMAIN-SUFFIX,b.com",
       "# note",
       ".a.com",
       "...",
       "DOMAIN-SUFFIX,a.com",
       "DOMAIN-WILDCARD,c.com" >>

\* Source texts of at most MaxSrcLines different lines.  extract_domains
\* returns a set, so the lines of one text are taken in the order of SrcLines.
SrcTexts ==
    {Join([i \in 1..Len(ix) |-> SrcLines[ix[i]]]) \o "\n" :
        ix \in {s \in SeqsUpTo(1..Len(SrcLines), MaxSrcLines) :
                   \A i \in 1..(Len(s) - 1) : s[i] < s[i + 1]}}

SrcFiles ==
    {NoFile, Unreadable("DOMAIN-SUFFIX,a.com\n")} \cup {File(t) : t \in SrcTexts}

MergeScript == << Call("merge_and_deduplicate", "cdn.conf", "CDN.conf") >>

InitMerge ==
    /\ root = TRUE
    /\ \E d \in SrcFiles, n \in SrcFiles, m \in {NoFile, File("DOMAIN-SUFFIX,old.com\n")} :
          fs = [EmptyFolder EXCEPT ![DsCdn] = d, ![NiCdn] = n, ![CDN] = m]
    /\ faults = TRUE
    /\ script = MergeScript
    /\ plan = script
    /\ pc = "entry"
    /\ InitCommon

NextMerge ==
    \/ Merge
    \/ UnlinkDomainset
    \/ UnlinkNonIp
    \/ Rerun

SpecMerge == InitMerge /\ [][NextMerge]_vars

(***************************************************************************)
(* The vocabulary of the specification: line categories, sentinels,        *)
(* canonical keys.                                                         *)
(***************************************************************************)

Sentinels ==
    { "this_ruleset_is_made_by_sukkaw.ruleset.skk.moe",
      "7h1s_rul35et_i5_mad3_by_5ukk4w-ruleset.skk.moe" }

DirectivePrefixes ==
    << "DOMAIN-WILDCARD,", "DOMAIN-KEYWORD,", "DOMAIN-SUFFIX,", "DOMAIN-SET,",
       "URL-REGEX,", "DOMAIN," >>

\* m occurs in s, letter case ignored
ContainsIgnoringCase(s, m) ==
    \E i \in 1..(Len(s) - Len(m) + 1) :
        \A k \in 1..Len(m) : LowerChar(Char(s, i + k - 1)) = LowerChar(Char(m, k))

IsWatermark(line) == \E m \in Sentinels : ContainsIgnoringCase(line, m)

HasSentinelAsWritten(line) == \E m \in Sentinels : Contains(line, m)

IsBlank(line) == Strip(line) = ""

IsComment(line) == StartsWith(Strip(line), "#")

IsDirectivePrefixed(line) ==
    \E i \in 1..Len(DirectivePrefixes) : StartsWith(Strip(line), DirectivePrefixes[i])

IsBareValue(line) ==
    ~IsBlank(line) /\ ~IsComment(line) /\ ~IsWatermark(line) /\ ~IsDirectivePrefixed(line)

LinesOf(f, p) == SplitLines(f[p].text)

HasLine(f, p, line) ==
    f[p].exists /\ \E i \in 1..Len(LinesOf(f, p)) : LinesOf(f, p)[i] = line

WasPrinted(ev, path) == \E i \in 1..Len(log) : log[i].ev = ev /\ log[i].path = path

\* The step of process_domainset_and_non_ip that rewrites the file at the
\* head of todo.
NormalizeStep ==
    /\ InCall("process_domainset_and_non_ip", "loop")
    /\ todo # <<>>
    /\ UnderDomainsetOrNonIp(Head(todo))

(***************************************************************************)
(* Claims about the cleaning stages (SpecClean).                           *)
(***************************************************************************)

\* C1: cleaning is idempotent: once the two stages have been applied to a
\* file, applying them again changes no file and writes nothing back.
C1_CleanIdempotent ==
    [][runs >= 2 => (fs' = fs /\ log' = log)]_vars

\* C1 witness: the second pass has ended on a file that the first pass wrote
\* back in both stages.
C1_SecondPassDone ==
    /\ runs = 2
    /\ pc = "done"
    /\ Len(log) = 2
    /\ fs # orig

C3_PassThrough ==
    [][NormalizeStep =>
        LET before == LinesOf(fs, Head(todo))
            after == LinesOf(fs', Head(todo))
            kept(l) == IsBlank(l) \/ IsComment(l) \/ IsDirectivePrefixed(l)
        IN  /\ \A i \in 1..Len(before) :
                 kept(before[i]) => i <= Len(after) /\ after[i] = before[i]
            /\ (\A i \in 1..Len(before) : kept(before[i]))
                 => fs' = fs /\ log' = log]_vars

\* The line the specification has the rewriter emit for a bare value.
Rewritten(line) ==
    LET rest == LStripDots(Strip(line))
    IN  IF rest = "" THEN line ELSE "DOMAIN-SUFFIX," \o rest

Sources == {DsCdn, NiCdn}

\* The canonical key of a line as the specification defines it: the trimmed
\* line without its first matching directive prefix (longest first) and
\* without leading dots; "" for a blank line or a comment.
CanonicalKey(line) ==
    LET t == Strip(line)
        hits == {i \in 1..Len(DirectivePrefixes) : StartsWith(t, DirectivePrefixes[i])}
        first == CHOOSE i \in hits : \A j \in hits : i <= j
        rest == IF hits = {} THEN t
                ELSE SubSeq(t, Len(DirectivePrefixes[first]) + 1, Len(t))
    IN  IF IsBlank(line) \/ IsComment(line) THEN "" ELSE LStripDots(rest)

CanonicalKeys(f, p) ==
    IF ~f[p].exists THEN {}
    ELSE {CanonicalKey(LinesOf(f, p)[i]) : i \in 1..Len(LinesOf(f, p))} \ {""}

\* The call of merge_and_deduplicate writes the unified file.
MergeWrites ==
    /\ InCall("merge_and_deduplicate", "entry")
    /\ pc' = "unlink_domainset"

\* C5, as claimed: the merged file holds exactly one line DOMAIN-SUFFIX,<key>
\* for each canonical key of the two sources, in strictly increasing order.
C5_MergeComplete ==
    [][(MergeWrites /\ \A p \in Sources : fs[p].exists => fs[p].readable) =>
        LET out == LinesOf(fs', CDN)
            keys == CanonicalKeys(fs, DsCdn) \cup CanonicalKeys(fs, NiCdn)
        IN  /\ Len(out) = Cardinality(keys)
            /\ {out[i] : i \in 1..Len(out)} = {"DOMAIN-SUFFIX," \o k : k \in keys}
            /\ \A i \in 1..(Len(out) - 1) : StrLess(out[i], out[i + 1])]_vars

\* The first run wrote the merged file, removed one source and failed to
\* remove the other.
OneSourceLeftBehind ==
    /\ Len(log) >= 3
    /\ log[1].ev = "Created unified"
    /\ {log[2].ev, log[3].ev} = {"Removed", "Failed to remove"}

\* C6, as claimed: once a merge has left one source behind, the merged file
\* keeps every key of the two original sources, however often the merge is
\* run again.  The keys are taken as extract_domains reads them, and a run
\* that a failed write ended is left aside.
C6_StaleSourceKeepsKeys ==
    (OneSourceLeftBehind /\ pc # "crashed") =>
        /\ fs[CDN].exists
        /\ (extract_domains(orig, DsCdn) \cup extract_domains(orig, NiCdn))
              \subseteq extract_domains(fs, CDN)

\* C7: a source is removed only when the merged file exists and holds every
\* domain read from that source, and the step in which the write of the
\* merged file fails leaves both sources as they were.
C7_WriteBeforeDelete ==
    [][/\ \A p \in Sources :
            (fs[p].exists /\ ~fs'[p].exists) =>
                /\ pc \in {"unlink_domainset", "unlink_non_ip"}
                /\ fs[CDN].exists
                /\ fs[CDN].text # ""
                /\ extract_domains(fs, p) \subseteq extract_domains(fs, CDN)
       /\ (pc # "crashed" /\ pc' = "crashed") =>
            \A p \in Sources : fs'[p] = fs[p]]_vars

\* C7 witness: the write of the merged file has failed, the merged file is
\* left truncated, and both sources are still there with their domains.
C7_WriteFailedSourcesKept ==
    /\ pc = "crashed"
    /\ runs = 1
    /\ fs[CDN].exists /\ fs[CDN].text = ""
    /\ \A p \in Sources : fs[p] = orig[p] /\ extract_domains(fs, p) # {}

Keyless(f, p) ==
    \/ ~f[p].readable
    \/ \A i \in 1..Len(LinesOf(f, p)) :
          LET l == LinesOf(f, p)[i]
          IN  IsBlank(l) \/ IsComment(l) \/ LStripDots(Strip(l)) = ""

\* C10: when a source exists and no existing source yields a key, the call
\* of merge_and_deduplicate changes no file (the merged file is neither
\* written nor changed, no source is removed) and returns.
C10_EmptyMergeUntouched ==
    [][(/\ InCall("merge_and_deduplicate", "entry")
        /\ \E p \in Sources : fs[p].exists
        /\ \A p \in Sources : fs[p].exists => Keyless(fs, p)) =>
            /\ fs' = fs
            /\ pc' = "done"]_vars

\* C10 witness: the merge has returned from a folder with a merged file of an
\* earlier day and two sources without keys, one of them unreadable.
C10_NothingExtracted ==
    /\ runs = 1
    /\ pc = "done"
    /\ orig[CDN].exists
    /\ orig[DsCdn].exists /\ ~orig[DsCdn].readable
    /\ HasLine(orig, NiCdn, "...")
    /\ HasLine(orig, NiCdn, "# note")
    /\ fs = orig
    /\ log = <<Printed("No domains extracted for", <<"cdn.conf">>, 0)>>

(***************************************************************************)
(* Claims about main (Spec).                                               *)
(***************************************************************************)

\* The merge of cdn.conf has run to its end: it has printed its outcome.
CdnMergeRan ==
    \/ WasPrinted("No source files found for", <<"cdn.conf">>)
    \/ WasPrinted("No domains extracted for", <<"cdn.conf">>)
    \/ WasPrinted("Created unified", CDN)

\* C8, as claimed: when the snapshot folder exists and the run has ended, the
\* merge of cdn.conf has run, whatever failed in the steps before it.
C8_ErrorIsolation ==
    (/\ root
     /\ pc \in {"done", "crashed"}
     /\ ~(pc = "crashed" /\ Head(plan).source = "cdn.conf"))
        => CdnMergeRan
====
